---------------------------- MODULE Spec2Model ----------------------------
(***************************************************************************)
(* A model of the web-scrobbler extension's YouTube connector, metadata    *)
(* filter and notifications:                                               *)
(*                                                                         *)
(*   src/connectors/v2/youtube.js    the player observer, the off-screen   *)
(*                                   check, the "music only" option, the   *)
(*                                   video title and the getters           *)
(*   src/core/content/filter.js      MetadataFilter: compilation of a      *)
(*                                   filter set, the filter engine, the    *)
(*                                   replace rules and the predefined      *)
(*                                   filter objects                        *)
(*   src/core/background/notifications.js                                  *)
(*                                   showNotification, the click           *)
(*                                   listeners and showAuthenticate        *)
(*                                                                         *)
(* The parts share no state in the program.  Each is followed under a      *)
(* specification of its own, which keeps the variables of the other parts  *)
(* at their initial values:                                                *)
(*                                                                         *)
(*   Spec         the player observer      RuleSpec    filterWithFilterSet *)
(*   OptionsSpec  the options read         ObjectSpec  filter sets by      *)
(*   FilterSpec   the filter engine                    reference           *)
(*   ShapeSpec    filter sets of other     TitleSpec   the video title     *)
(*                shapes                   GetterSpec  the getters         *)
(*   PresetSpec   the predefined filter    NotifSpec   the notifications   *)
(*                objects                  AuthSpec    showAuthenticate    *)
(***************************************************************************)
EXTENDS Integers, Sequences, FiniteSets, TLC

VARIABLES
    \* ---- the host page (the DOM the connector reads) ----
    player,              \* "default" | "material": isDefaultPlayer() at inject
    anchorPresent,       \* does '#player-api' / '#player-container' exist
    offsetLeft,          \* $player.offset().left
    offsetTop,           \* $player.offset().top
    video,               \* the element matching videoSelector; 0 when none
    \* ---- setupMutationObserver ----
    isMusicVideoPresent, \* the closure flag of setupMutationObserver
    listeners,           \* element -> number of 'timeupdate' listeners on it
    log,                 \* one record per run of the observer callback
    lastAnchor,          \* anchorPresent as the latest run of the callback saw it
    tick,                \* the latest 'timeupdate' event and the calls it made
    \* ---- readConnectorOptions / isStateChangeAllowed ----
    scrobbleMusicOnly,   \* the module variable of line 9
    optionsRead,         \* "none" | "pending" | "delivered": the storage read
    storage,             \* what chrome.storage.local.get will deliver
    genre,               \* content of meta[itemprop="genre"]
    lastQuery,           \* the latest call of Connector.isStateChangeAllowed
    \* ---- MetadataFilter ----
    filterSet,           \* the filter set given to new MetadataFilter(...)
    mergedFilterSet,     \* the constructor's const mergedFilterSet
    call,                \* the filterArtist/filterTrack/filterAlbum call in
                         \* progress or just returned; NoCall between calls
    \* ---- MetadataFilter.filterWithFilterSet ----
    rules,               \* the array of replace rules given as set
    ruleText,            \* the text given
    ruleCall,            \* the call: NoRuleCall before it is made
    \* ---- MetadataFilter: the filter set as an object of the caller ----
    arrays,              \* the arrays there are, by reference (1, 2, ...)
    filterSetObj,        \* the caller's filter set; its arrays by reference
    filterObjs,          \* the MetadataFilter objects constructed from it
    \* ---- processYoutubeVideoTitle ----
    rawText,             \* the video title given as text
    splitResult,         \* what Connector.splitArtistTrack returns when called
    titleCall,           \* the call: NoTitleCall before it is made
    \* ---- the connector's getters (Material player) ----
    page,                \* what the title, link and video elements hold
    got,                 \* the getter call just made; NoGot between calls
    \* ---- notifications.js ----
    clickListeners,      \* the map of line 18: notification ID -> listener
    shows,               \* the showNotification calls made, in order
    notifications,       \* the browser's notifications, by ID (1, 2, ...)
    clicked,             \* the latest onClicked event and what it called
    auths,               \* the showAuthenticate calls made, in order
    opened               \* the windows and tabs opened, in order

detectorVars == <<player, anchorPresent, offsetLeft, offsetTop, video,
                  isMusicVideoPresent, listeners, log, lastAnchor, tick>>

optionsVars == <<scrobbleMusicOnly, optionsRead, storage, genre, lastQuery>>

filterVars == <<filterSet, mergedFilterSet, call>>

ruleVars == <<rules, ruleText, ruleCall>>

\* The parts of the program followed under specifications of their own.
objectVars == <<arrays, filterSetObj, filterObjs>>

titleVars == <<rawText, splitResult, titleCall>>

getterVars == <<page, got>>

notifVars == <<clickListeners, shows, notifications, clicked>>

authVars == <<auths, opened>>

restVars ==
    <<ruleVars, objectVars, titleVars, getterVars, notifVars, authVars>>

vars == <<detectorVars, optionsVars, filterVars, restVars>>

-----------------------------------------------------------------------------
(* Bounds of the model. *)

\* The observer callback is followed for this many mutation observations.
MaxObs == 4
\* The number of distinct video elements the host page creates, one at a time.
MaxVideo == 2

\* Texts handed to the filter hold at most this many characters.
MaxLen == 3
\* An array of replace rules holds at most this many rules.
MaxRules == 2
\* The number of MetadataFilter objects constructed from one filter set.
MaxFilters == 2
\* A video title holds at most this many characters behind its [genre] tag.
MaxTitle == 5
\* The number of showNotification calls followed.
MaxShows == 2
\* Clicks on notifications are followed until this many windows and tabs
\* were opened.
MaxOpened == 2
\* A filter set holds at most this many filter functions, over its four slots.
MaxFns == 2

\* Coordinates the anchor's offset takes: negative, zero, positive.
Coord == {-1, 0, 1}
VideoIds == 1..MaxVideo

-----------------------------------------------------------------------------
(* The off-screen check. *)

\* Connector.isPlayerOffscreen of setupDefaultPlayer.
isPlayerOffscreenDefault(present, left, top) ==
    IF ~present THEN FALSE
    ELSE left < 0 \/ top < 0

\* isPlayerOffscreen without the length check of lines 136-138, the offset
\* of an empty selection read as 0.
isPlayerOffscreenMaterialNoLengthCheck(present, left, top) ==
    left <= 0 \/ top <= 0

\* Connector.isPlayerOffscreen of setupMaterialPlayer.
isPlayerOffscreenMaterial(present, left, top) ==
    IF ~present THEN FALSE
    ELSE left <= 0 \/ top <= 0

\* Connector.isPlayerOffscreen as installed by setupConnector.
isPlayerOffscreen ==
    IF player = "default"
    THEN isPlayerOffscreenDefault(anchorPresent, offsetLeft, offsetTop)
    ELSE isPlayerOffscreenMaterial(anchorPresent, offsetLeft, offsetTop)

-----------------------------------------------------------------------------
(* setupMutationObserver. *)

\* What one run of the observer callback did.
\*   pred      "off" | "on" | "throw": the outcome of the off-screen check
\*   attach    number of $(videoSelector).on('timeupdate', ...) calls
\*   emit      number of Connector.onStateChanged() calls
\*   raised    whether an exception left the callback
Calls(pred, attach, emit, raised) ==
    [pred |-> pred, attach |-> attach, emit |-> emit, raised |-> raised]

\* The number of 'timeupdate' listeners attached, over all elements.
RECURSIVE SumListeners(_, _)
SumListeners(l, n) == IF n = 0 THEN 0 ELSE l[n] + SumListeners(l, n - 1)
TotalListeners(l) == SumListeners(l, MaxVideo)

\* $(videoSelector).on('timeupdate', Connector.onStateChanged): one more
\* listener on the element the selector matches now, none when it matches
\* nothing.
attachTimeupdate ==
    [e \in VideoIds |-> IF e = video THEN listeners[e] + 1 ELSE listeners[e]]

\* onSurface without the early return of lines 183-185.
onSurfaceNoGuard(calls) ==
    /\ listeners' = attachTimeupdate
    /\ isMusicVideoPresent' = TRUE
    /\ calls = Calls("on", 1, 0, FALSE)

\* The else branch of the callback (lines 183-188).
onSurface(calls) ==
    IF isMusicVideoPresent
    THEN /\ calls = Calls("on", 0, 0, FALSE)
         /\ UNCHANGED <<isMusicVideoPresent, listeners>>
    ELSE /\ listeners' = attachTimeupdate
         /\ isMusicVideoPresent' = TRUE
         /\ calls = Calls("on", 1, 0, FALSE)

\* offSurface signalling only while the hook is attached.
offSurfaceDeduplicated(calls) ==
    /\ calls = Calls("off", 0, IF isMusicVideoPresent THEN 1 ELSE 0, FALSE)
    /\ UNCHANGED <<isMusicVideoPresent, listeners>>

\* offSurface taking the hook off again and resetting the flag.
offSurfaceDetaches(calls) ==
    /\ calls = Calls("off", 0, 1, FALSE)
    /\ isMusicVideoPresent' = FALSE
    /\ listeners' = [e \in VideoIds |-> 0]

\* The then branch of the callback (line 181).
offSurface(calls) ==
    /\ calls = Calls("off", 0, 1, FALSE)
    /\ UNCHANGED <<isMusicVideoPresent, listeners>>

\* The call Connector.isPlayerOffscreen() raises: the callback has no
\* try/catch, so the exception leaves it and neither branch runs.
predicateThrows(calls) ==
    /\ calls = Calls("throw", 0, 0, TRUE)
    /\ UNCHANGED <<isMusicVideoPresent, listeners>>

CallsSet ==
    [pred : {"on", "off", "throw"}, attach : 0..1, emit : 0..1,
     raised : BOOLEAN]

\* The callback given to new MutationObserver(...).  faulty: the call of
\* the off-screen check raises instead of returning.  The log entry holds
\* the calls the run made, the listeners it added and the flag it left.
playerObserver(faulty) ==
    /\ Len(log) < MaxObs
    /\ \E calls \in CallsSet :
          /\ IF faulty THEN predicateThrows(calls)
             ELSE IF isPlayerOffscreen THEN offSurface(calls)
             ELSE onSurface(calls)
          /\ log' = Append(log,
                 [pred |-> calls.pred, attach |-> calls.attach,
                  emit |-> calls.emit, raised |-> calls.raised,
                  hooked |-> TotalListeners(listeners')
                               - TotalListeners(listeners),
                  flag |-> isMusicVideoPresent'])
    /\ lastAnchor' = anchorPresent
    /\ UNCHANGED <<player, anchorPresent, offsetLeft, offsetTop, video, tick>>

\* A 'timeupdate' event of the video element in the page: every listener
\* attached to it calls Connector.onStateChanged.
timeupdate ==
    /\ video # 0
    /\ tick' = [el |-> video, calls |-> listeners[video]]
    /\ UNCHANGED <<player, anchorPresent, offsetLeft, offsetTop, video,
                   isMusicVideoPresent, listeners, log, lastAnchor>>

-----------------------------------------------------------------------------
(* The "music only" option of the default player. *)

\* JavaScript's undefined, as the value of an attribute or property that
\* does not exist.
Undefined == "<undefined>"

\* Values of meta[itemprop="genre"]'s content: no such element, an empty
\* attribute, and two categories.
Genres == {Undefined, "", "Music", "Gaming"}

\* if (videoCategory): undefined and the empty string are falsy.
Truthy(value) == value # Undefined /\ value # ""

\* What chrome.storage.local.get('Connectors', ...) can deliver:
\*   shape "undefined"      data is undefined
\*         "no-Connectors"  data has no Connectors property
\*         "no-YouTube"     data.Connectors has no YouTube property
\*         "YouTube"        data.Connectors.YouTube is the options object
\* scrobbleMusicOnly is the options object's property: the booleans, a
\* missing property, and two values that are truthy but not true.
OptionValues == {"true", "false", Undefined, "'true'", "1"}
StorageData ==
    {[shape |-> sh, scrobbleMusicOnly |-> Undefined] :
        sh \in {"undefined", "no-Connectors", "no-YouTube"}}
    \cup {[shape |-> "YouTube", scrobbleMusicOnly |-> v] : v \in OptionValues}

NoQuery == [asked |-> FALSE, pending |-> FALSE, musicOnly |-> FALSE,
            category |-> Undefined, result |-> TRUE]

\* isStateChangeAllowed answering for the Music category only, whatever the
\* option says.
isStateChangeAllowedMusicOnly(videoCategory, musicOnly) ==
    IF Truthy(videoCategory)
    THEN videoCategory = "Music"
    ELSE TRUE

\* Connector.isStateChangeAllowed (lines 54-63), on the category read from
\* the page and the module variable.
isStateChangeAllowed(videoCategory, musicOnly) ==
    IF Truthy(videoCategory)
    THEN ~musicOnly \/ (musicOnly /\ videoCategory = "Music")
    ELSE TRUE

\* A call of Connector.isStateChangeAllowed by the core; it answers at once,
\* whether or not the options have arrived.
callIsStateChangeAllowed ==
    /\ player = "default"
    /\ lastQuery' = [asked |-> TRUE, pending |-> (optionsRead = "pending"),
                     musicOnly |-> scrobbleMusicOnly, category |-> genre,
                     result |-> isStateChangeAllowed(genre, scrobbleMusicOnly)]
    /\ UNCHANGED <<scrobbleMusicOnly, optionsRead, storage, genre>>

\* The callback of chrome.storage.local.get (lines 231-240).
storageCallback ==
    /\ optionsRead = "pending"
    /\ optionsRead' = "delivered"
    /\ scrobbleMusicOnly' =
          (IF storage.shape = "YouTube" /\ storage.scrobbleMusicOnly = "true"
           THEN TRUE
           ELSE scrobbleMusicOnly)
    /\ UNCHANGED <<storage, genre, lastQuery>>

\* The page navigates to another video.
HostSetsGenre ==
    /\ \E g \in Genres : g # genre /\ genre' = g
    /\ UNCHANGED <<scrobbleMusicOnly, optionsRead, storage, lastQuery>>

-----------------------------------------------------------------------------
(* MetadataFilter: texts and filter functions. *)

\* Characters of the texts: a space, a letter, and "z" for U+200B (ZERO
\* WIDTH SPACE), which removeZeroWidth removes and String.prototype.trim
\* keeps (it is not white space in ECMAScript).
Alphabet == {" ", "a", "z"}

\* A text is a sequence of characters; null is a value of its own.
Null == <<"<null>">>
\* The value of a call that raised instead of returning.
NoResult == <<"<raised>">>

RECURSIVE StringsOfLen(_)
StringsOfLen(n) ==
    IF n = 0 THEN {<<>>}
    ELSE {Append(t, c) : t \in StringsOfLen(n - 1), c \in Alphabet}
Strings == UNION {StringsOfLen(n) : n \in 0..MaxLen}
Texts == Strings \cup {Null}

RECURSIVE trimStart(_)
trimStart(text) ==
    IF text # <<>> /\ Head(text) = " " THEN trimStart(Tail(text)) ELSE text

RECURSIVE trimEnd(_)
trimEnd(text) ==
    IF text # <<>> /\ text[Len(text)] = " "
    THEN trimEnd(SubSeq(text, 1, Len(text) - 1))
    ELSE text

RECURSIVE removeAll(_, _)
removeAll(text, c) ==
    IF text = <<>> THEN <<>>
    ELSE IF Head(text) = c THEN removeAll(Tail(text), c)
    ELSE <<Head(text)>> \o removeAll(Tail(text), c)

\* What a call of a function gives: a value, or an exception.
Returns(text) == [out |-> text, raised |-> FALSE]
Raises == [out |-> NoResult, raised |-> TRUE]

\* trim giving null instead of an empty result.
trimOrNull(text) ==
    IF text = Null THEN Raises
    ELSE IF trimEnd(trimStart(text)) = <<>> THEN Returns(Null)
    ELSE Returns(trimEnd(trimStart(text)))

\* MetadataFilter.trim: text.trim(); a TypeError on null.
trim(text) ==
    IF text = Null THEN Raises ELSE Returns(trimEnd(trimStart(text)))

\* MetadataFilter.removeZeroWidth: text.replace(/[\u200B-\u200D\uFEFF]/g, '');
\* a TypeError on null.
removeZeroWidth(text) ==
    IF text = Null THEN Raises ELSE Returns(removeAll(text, "z"))

-----------------------------------------------------------------------------
(* MetadataFilter.filterWithFilterSet: replace rules. *)

\* The characters \s matches, of those that occur in the texts here and in
\* the character classes of the predefined rules.
Whitespace == {" "}

\* A replace rule { source, target }.  The source is one of the patterns the
\* predefined rules and their callers use:
\*   "literal"   /chars/ or /chars/g, or the string chars (never global)
\*   "edges"     /^[class]+|[class]+$/ or the same with g
\*   "leading"   /^[class]+/
\*   "trailing"  /[class]+$/
\*   "suffix"    /chars$/
\* The target is a text without $ patterns.
Rule(kind, chars, class, global, target) ==
    [kind |-> kind, chars |-> chars, class |-> class, global |-> global,
     target |-> target]
Literal(chars, global, target) == Rule("literal", chars, {}, global, target)
Edges(class, global, target) == Rule("edges", <<>>, class, global, target)
Leading(class, target) == Rule("leading", <<>>, class, FALSE, target)
Trailing(class, target) == Rule("trailing", <<>>, class, FALSE, target)
Suffix(chars, target) == Rule("suffix", chars, {}, FALSE, target)

Drop(text, n) == SubSeq(text, n + 1, Len(text))
DropLast(text, n) == SubSeq(text, 1, Len(text) - n)
StartsWith(text, chars) ==
    Len(chars) <= Len(text) /\ SubSeq(text, 1, Len(chars)) = chars
EndsWith(text, chars) ==
    /\ Len(chars) <= Len(text)
    /\ SubSeq(text, Len(text) - Len(chars) + 1, Len(text)) = chars

\* Where the leftmost match of chars starts in text; 0 when there is none.
FirstIndex(text, chars) ==
    LET starts == {k \in 1..(Len(text) - Len(chars) + 1) :
                      SubSeq(text, k, k + Len(chars) - 1) = chars}
    IN  IF starts = {} THEN 0
        ELSE CHOOSE k \in starts : \A j \in starts : k <= j

RECURSIVE leadingRun(_, _)
leadingRun(text, class) ==
    IF text # <<>> /\ Head(text) \in class
    THEN 1 + leadingRun(Tail(text), class)
    ELSE 0

RECURSIVE trailingRun(_, _)
trailingRun(text, class) ==
    IF text # <<>> /\ text[Len(text)] \in class
    THEN 1 + trailingRun(DropLast(text, 1), class)
    ELSE 0

\* text.replace(/chars/, target): the leftmost match only.
RECURSIVE replaceFirst(_, _, _)
replaceFirst(text, chars, target) ==
    IF Len(text) < Len(chars) THEN text
    ELSE IF StartsWith(text, chars)
         THEN target \o Drop(text, Len(chars))
         ELSE <<Head(text)>> \o replaceFirst(Tail(text), chars, target)

\* text.replace(/chars/g, target): every match, from left to right, the
\* search going on behind the match just replaced.
RECURSIVE replaceEvery(_, _, _)
replaceEvery(text, chars, target) ==
    IF Len(text) < Len(chars) THEN text
    ELSE IF StartsWith(text, chars)
         THEN target \o replaceEvery(Drop(text, Len(chars)), chars, target)
         ELSE <<Head(text)>> \o replaceEvery(Tail(text), chars, target)

replaceLeading(text, class, target) ==
    IF leadingRun(text, class) = 0 THEN text
    ELSE target \o Drop(text, leadingRun(text, class))

replaceTrailing(text, class, target) ==
    IF trailingRun(text, class) = 0 THEN text
    ELSE DropLast(text, trailingRun(text, class)) \o target

\* text.replace(/^[class]+|[class]+$/, target): the leading run if there is
\* one, else the trailing run; with g, both.
replaceEdges(text, class, global, target) ==
    IF leadingRun(text, class) = 0 THEN replaceTrailing(text, class, target)
    ELSE IF global
         THEN target \o replaceTrailing(Drop(text, leadingRun(text, class)),
                                        class, target)
         ELSE target \o Drop(text, leadingRun(text, class))

\* text.replace(data.source, data.target) of line 149, on a string.
replace(text, data) ==
    CASE data.kind = "literal" ->
            IF data.global THEN replaceEvery(text, data.chars, data.target)
            ELSE replaceFirst(text, data.chars, data.target)
      [] data.kind = "edges" ->
            replaceEdges(text, data.class, data.global, data.target)
      [] data.kind = "leading" -> replaceLeading(text, data.class, data.target)
      [] data.kind = "trailing" ->
            replaceTrailing(text, data.class, data.target)
      [] data.kind = "suffix" ->
            IF EndsWith(text, data.chars)
            THEN DropLast(text, Len(data.chars)) \o data.target
            ELSE text

\* One pass of the loop of lines 148-150: the rule, the text it was applied
\* to, and the text it gave.
Step(data, text, out) == [source |-> data, arg |-> text, out |-> out]

\* filterWithFilterSet leaving the loop behind the first rule that changed
\* the text.
RECURSIVE filterWithFilterSetFirstMatch(_, _)
filterWithFilterSetFirstMatch(text, set) ==
    IF set = <<>> THEN [text |-> text, steps |-> <<>>]
    ELSE LET out == replace(text, Head(set))
             rest == filterWithFilterSetFirstMatch(out, Tail(set))
         IN  IF out # text
             THEN [text |-> out, steps |-> <<Step(Head(set), text, out)>>]
             ELSE [text |-> rest.text,
                   steps |-> <<Step(Head(set), text, out)>> \o rest.steps]

\* MetadataFilter.filterWithFilterSet (lines 147-153) on a string.  text:
\* what it returns; steps: the passes of its loop, in order.
RECURSIVE filterWithFilterSet(_, _)
filterWithFilterSet(text, set) ==
    IF set = <<>> THEN [text |-> text, steps |-> <<>>]
    ELSE LET out == replace(text, Head(set))
             rest == filterWithFilterSet(out, Tail(set))
         IN  [text |-> rest.text,
              steps |-> <<Step(Head(set), text, out)>> \o rest.steps]

\* The rules the arrays given to filterWithFilterSet are made of here.
RuleBook ==
    {Literal(<<"a">>, FALSE, <<>>), Literal(<<"a">>, TRUE, <<>>),
     Literal(<<" ">>, TRUE, <<"z">>), Literal(<<"a", "a">>, TRUE, <<"z">>),
     Edges(Whitespace, FALSE, <<>>), Edges(Whitespace, TRUE, <<>>)}

RECURSIVE RulesOfLen(_)
RulesOfLen(n) ==
    IF n = 0 THEN {<<>>}
    ELSE {Append(t, data) : t \in RulesOfLen(n - 1), data \in RuleBook}
RuleTables == UNION {RulesOfLen(n) : n \in 0..MaxRules}

NoRuleCall == [made |-> FALSE, result |-> <<>>, steps |-> <<>>]

\* A call MetadataFilter.filterWithFilterSet(ruleText, rules).
callFilterWithFilterSet ==
    /\ ~ruleCall.made
    /\ LET r == filterWithFilterSet(ruleText, rules)
       IN  ruleCall' = [made |-> TRUE, result |-> r.text, steps |-> r.steps]
    /\ UNCHANGED <<rules, ruleText>>

-----------------------------------------------------------------------------
(* MetadataFilter: the filter functions of a filter set. *)

\* MetadataFilter.YOUTUBE_TRACK_FILTERS (lines 167-214), the rules of it that
\* can match a text over Alphabet: the first and the last two.  Each of the
\* twenty rules between them needs a character the texts here do not have
\* (one of * [ ( . " ', a digit, or a letter other than "a"), so it leaves
\* every such text as it is.
YOUTUBE_TRACK_FILTERS ==
    <<Edges(Whitespace, TRUE, <<>>),
      Leading(Whitespace \cup {"/", ",", ":", ";", "~", "-", "\""}, <<>>),
      Trailing(Whitespace \cup {"/", ",", ":", ";", "~", "-", "\"", "!"},
               <<>>)>>

\* MetadataFilter.REMASTERED_FILTERS (lines 221-242), the two rules of it
\* whose pattern is a plain text at the end (the first and the last); the
\* other eight hold \d+ or .+? and need digits and parentheses.  None of
\* the ten can match a text over Alphabet.
REMASTERED_FILTERS ==
    <<Suffix(<<"-", " ", "R", "e", "m", "a", "s", "t", "e", "r", "e", "d">>,
             <<>>),
      Suffix(<<"-", " ", "L", "i", "v", "e", " ", "/", " ",
               "R", "e", "m", "a", "s", "t", "e", "r", "e", "d">>, <<>>)>>

\* MetadataFilter.youtube (lines 124-128); text.replace is a TypeError on
\* null.
youtube(text) ==
    IF text = Null THEN Raises
    ELSE Returns(filterWithFilterSet(text, YOUTUBE_TRACK_FILTERS).text)

\* MetadataFilter.removeRemastered (lines 135-139).
removeRemastered(text) ==
    IF text = Null THEN Raises
    ELSE Returns(filterWithFilterSet(text, REMASTERED_FILTERS).text)

\* The filter functions a filter set is built from here: the two predefined
\* ones above and "faulty", a function of the connector's own that raises.
FilterFunctions == {"trim", "removeZeroWidth", "faulty"}

\* filter(text) of line 57, by the function's name.
Apply(filter, text) ==
    CASE filter = "trim" -> trim(text)
      [] filter = "removeZeroWidth" -> removeZeroWidth(text)
      [] filter = "youtube" -> youtube(text)
      [] filter = "removeRemastered" -> removeRemastered(text)
      [] OTHER -> Raises

-----------------------------------------------------------------------------
(* MetadataFilter: the filter set and its compilation. *)

Fields == {"artist", "track", "album"}

\* What a property of the filter set holds: nothing, a function, or an array
\* of functions.
Absent == [shape |-> "undefined", fns |-> <<>>]
Function(f) == [shape |-> "function", fns |-> <<f>>]
Array(fs) == [shape |-> "array", fns |-> fs]

RECURSIVE SeqsOfLen(_)
SeqsOfLen(n) ==
    IF n = 0 THEN {<<>>}
    ELSE {Append(t, f) : t \in SeqsOfLen(n - 1), f \in FilterFunctions}

\* The entries a property counts for in the bound MaxFns: its functions, an
\* empty array counting as one.
SlotsOfWeight(w) ==
    IF w = 0 THEN {Absent}
    ELSE {Array(fs) : fs \in SeqsOfLen(w)}
         \cup (IF w = 1
               THEN {Function(f) : f \in FilterFunctions} \cup {Array(<<>>)}
               ELSE {})

\* The filter sets given to the constructor: every choice of the four
\* properties with at most MaxFns entries in all.
FilterSets ==
    UNION {
        [artist : SlotsOfWeight(w[1]), track : SlotsOfWeight(w[2]),
         album : SlotsOfWeight(w[3]), all : SlotsOfWeight(w[4])] :
        w \in {v \in [1..4 -> 0..MaxFns] : v[1] + v[2] + v[3] + v[4] <= MaxFns}}

\* createFilters (lines 63-72).
createFilters(filters) ==
    IF filters.shape = "function" THEN <<filters.fns[1]>>
    ELSE IF filters.shape = "array" THEN filters.fns
    ELSE <<>>

\* createMergedFilters with the two lists concatenated the other way round.
createMergedFiltersAllFirst(set) ==
    [field \in Fields |->
        createFilters(set.all) \o createFilters(set[field])]

\* createMergedFilters (lines 74-81).
createMergedFilters(set) ==
    [field \in Fields |->
        createFilters(set[field]) \o createFilters(set.all)]

\* MetadataFilter.getTrimFilter's filter set (lines 248-254).
TrimFilterSet ==
    [artist |-> Function("trim"), track |-> Function("trim"),
     album |-> Function("trim"), all |-> Absent]

\* MetadataFilter.getYoutubeFilter's filter set (lines 260-265).
YoutubeFilterSet ==
    [artist |-> Absent, track |-> Function("youtube"), album |-> Absent,
     all |-> Function("trim")]

\* MetadataFilter.getRemasteredFilter's filter set (lines 271-277).
RemasteredFilterSet ==
    [artist |-> Absent, track |-> Function("removeRemastered"),
     album |-> Function("removeRemastered"), all |-> Function("trim")]

Presets == {TrimFilterSet, YoutubeFilterSet, RemasteredFilterSet}

-----------------------------------------------------------------------------
(* MetadataFilter: the filter set as an object of the caller.  Arrays are   *)
(* objects: the caller keeps the ones it put into the filter set and can    *)
(* change them after a MetadataFilter was constructed.  Here an array is a  *)
(* reference into arrays, and every [...] literal and every concat makes a  *)
(* new one.                                                                 *)

\* What a property of the filter set holds, an array by its reference.
AbsentSlot == [shape |-> "undefined", fns |-> <<>>, ref |-> 0]
FunctionSlot(f) == [shape |-> "function", fns |-> <<f>>, ref |-> 0]
ArrayAt(r) == [shape |-> "array", fns |-> <<>>, ref |-> r]

\* The property as a value: the array with the elements it has in h.
Contents(h, slot) ==
    IF slot.shape = "array" THEN Array(h[slot.ref])
    ELSE [shape |-> slot.shape, fns |-> slot.fns]

\* The filter set as a value, its arrays read in h.
FilterSetIn(h, set) ==
    [p \in {"artist", "track", "album", "all"} |-> Contents(h, set[p])]

\* A new array with these elements.
NewArray(h, fns) == [arrays |-> Append(h, fns), ref |-> Len(h) + 1]

\* createFilters (lines 63-72): a new array for a function and for anything
\* else, the array itself for an array.
createFiltersIn(h, filters) ==
    IF filters.shape = "function" THEN NewArray(h, <<filters.fns[1]>>)
    ELSE IF filters.shape = "array" THEN [arrays |-> h, ref |-> filters.ref]
    ELSE NewArray(h, <<>>)

\* concat giving its receiver back when there is nothing to append.
concatNoCopy(h, r1, r2) ==
    IF h[r2] = <<>> THEN [arrays |-> h, ref |-> r1]
    ELSE NewArray(h, h[r1] \o h[r2])

\* Array.prototype.concat (line 78): a new array holding the elements of
\* the receiver and then those of the argument.
concat(h, r1, r2) == NewArray(h, h[r1] \o h[r2])

\* The body of the loop of lines 76-79 for one field.
mergeField(h, set, field) ==
    LET own == createFiltersIn(h, set[field])
        all == createFiltersIn(own.arrays, set.all)
    IN  concat(all.arrays, own.ref, all.ref)

\* createMergedFilters (lines 74-81) on references.
createMergedFiltersIn(h, set) ==
    LET artist == mergeField(h, set, "artist")
        track == mergeField(artist.arrays, set, "track")
        album == mergeField(track.arrays, set, "album")
    IN  [arrays |-> album.arrays,
         lists |-> [artist |-> artist.ref, track |-> track.ref,
                    album |-> album.ref]]

\* The arrays the caller made for its filter set.
CallerArrays == {1, 2}

\* new MetadataFilter(filterSetObj).  mergedFilterSet: the references the
\* object keeps in its closure; from: the filter set as it was, by value.
construct ==
    /\ Len(filterObjs) < MaxFilters
    /\ LET made == createMergedFiltersIn(arrays, filterSetObj)
       IN  /\ arrays' = made.arrays
           /\ filterObjs' = Append(filterObjs,
                 [mergedFilterSet |-> made.lists,
                  from |-> FilterSetIn(arrays, filterSetObj)])
    /\ UNCHANGED filterSetObj

\* The caller pushes a function onto one of its arrays.
callerPushes ==
    /\ \E r \in CallerArrays :
          /\ Len(arrays[r]) < MaxFns
          /\ arrays' = [arrays EXCEPT ![r] = Append(@, "removeZeroWidth")]
    /\ UNCHANGED <<filterSetObj, filterObjs>>

\* The caller deletes a property of its filter set.
callerDeletes ==
    /\ \E p \in {"track", "all"} :
          /\ filterSetObj[p] # AbsentSlot
          /\ filterSetObj' = [filterSetObj EXCEPT ![p] = AbsentSlot]
    /\ UNCHANGED <<arrays, filterObjs>>

-----------------------------------------------------------------------------
(* MetadataFilter: the filter engine. *)

\* One call of a filter function: its name, its argument, and what it gave.
Invocation(filter, text, r) ==
    [fn |-> filter, arg |-> text, out |-> r.out, raised |-> r.raised]

\* filters.forEach(filter => { text = filter(text); }) of lines 56-58: an
\* exception of a filter ends the loop and leaves forEach.
RECURSIVE forEach(_, _, _)
forEach(filters, text, invoked) ==
    IF filters = <<>>
    THEN [text |-> text, raised |-> FALSE, invoked |-> invoked]
    ELSE LET r == Apply(Head(filters), text)
             now == Append(invoked, Invocation(Head(filters), text, r))
         IN  IF r.raised
             THEN [text |-> NoResult, raised |-> TRUE, invoked |-> now]
             ELSE forEach(Tail(filters), r.out, now)

\* filterField without the test of lines 52-54.
filterFieldNoShortCircuit(text, filters) ==
    forEach(filters, text, <<>>)

\* filterField (lines 51-61).  text: what the call returns; raised: whether
\* it raised instead; invoked: the filter calls it made, in order.
filterField(text, filters) ==
    IF text = Null \/ text = <<>>
    THEN [text |-> text, raised |-> FALSE, invoked |-> <<>>]
    ELSE forEach(filters, text, <<>>)

NoCall == [made |-> FALSE, field |-> "", text |-> <<>>, result |-> <<>>,
           raised |-> FALSE, invoked |-> <<>>]

\* this.filterArtist / filterTrack / filterAlbum (lines 23-43) on the
\* compiled list of the field.
filterCall(field, text) ==
    /\ ~call.made
    /\ LET r == filterField(text, mergedFilterSet[field])
       IN  call' = [made |-> TRUE, field |-> field, text |-> text,
                    result |-> r.text, raised |-> r.raised,
                    invoked |-> r.invoked]
    /\ UNCHANGED <<filterSet, mergedFilterSet>>

filterArtist(text) == filterCall("artist", text)
filterTrack(text) == filterCall("track", text)
filterAlbum(text) == filterCall("album", text)

\* The caller takes the result (or the exception); the filter is ready for
\* the next call.
callReturns ==
    /\ call.made
    /\ call' = NoCall
    /\ UNCHANGED <<filterSet, mergedFilterSet>>

-----------------------------------------------------------------------------
(* processYoutubeVideoTitle. *)

\* { artist: null, track: null }
NullPair == [artist |-> Null, track |-> Null]

\* if (!text): null (also standing for undefined) and the empty string.
Falsy(text) == text = Null \/ text = <<>>

\* text.replace(/^\[[^\]]+\]\s*-*\s*/i, '') of line 213: a leading "[",
\* one or more characters other than "]", a "]", and behind it white space,
\* dashes and white space again, as many as there are.
removeGenre(text) ==
    IF StartsWith(text, <<"[">>) /\ FirstIndex(text, <<"]">>) >= 3
    THEN LET rest == Drop(text, FirstIndex(text, <<"]">>))
             noSpace == Drop(rest, leadingRun(rest, Whitespace))
             noDash == Drop(noSpace, leadingRun(noSpace, {"-"}))
         IN  Drop(noDash, leadingRun(noDash, Whitespace))
    ELSE text

\* The ways /(.+?)\s"(.+?)"/ can match in text: <<i, j, k>> where the first
\* group is text[i..j], text[j+1] is white space, text[j+2] is the opening
\* quote, the second group is text[j+3..k] and text[k+1] the closing quote.
QuotedMatches(text) ==
    {m \in (1..Len(text)) \X (1..Len(text)) \X (1..Len(text)) :
        /\ m[1] <= m[2]
        /\ m[2] + 3 <= m[3]
        /\ m[3] + 1 <= Len(text)
        /\ text[m[2] + 1] \in Whitespace
        /\ text[m[2] + 2] = "\""
        /\ text[m[3] + 1] = "\""}

Before(m, n) ==
    \/ m[1] < n[1]
    \/ m[1] = n[1] /\ m[2] < n[2]
    \/ m[1] = n[1] /\ m[2] = n[2] /\ m[3] <= n[3]

\* text.match(/(.+?)\s"(.+?)"/) of line 218: the leftmost match, each lazy
\* group as short as the rest of the pattern allows; null when there is none.
matchQuoted(text) ==
    IF QuotedMatches(text) = {} THEN NullPair
    ELSE LET m == CHOOSE x \in QuotedMatches(text) :
                     \A y \in QuotedMatches(text) : Before(x, y)
         IN  [artist |-> SubSeq(text, m[1], m[2]),
              track |-> SubSeq(text, m[2] + 3, m[3])]

\* processYoutubeVideoTitle trying the quoted form as soon as one of artist
\* and track is null.
processYoutubeVideoTitleEitherNull(text, split) ==
    IF Falsy(text)
    THEN [artist |-> Null, track |-> Null, splitCalls |-> <<>>]
    ELSE LET title == removeGenre(text)
         IN  IF split.artist = Null \/ split.track = Null
             THEN [artist |-> matchQuoted(title).artist,
                   track |-> matchQuoted(title).track,
                   splitCalls |-> <<title>>]
             ELSE [artist |-> split.artist, track |-> split.track,
                   splitCalls |-> <<title>>]

\* processYoutubeVideoTitle (lines 207-225).  split: what
\* Connector.splitArtistTrack returns; splitCalls: the arguments it was
\* called with.
processYoutubeVideoTitle(text, split) ==
    IF Falsy(text)
    THEN [artist |-> Null, track |-> Null, splitCalls |-> <<>>]
    ELSE LET title == removeGenre(text)
         IN  IF split.artist = Null /\ split.track = Null
             THEN [artist |-> matchQuoted(title).artist,
                   track |-> matchQuoted(title).track,
                   splitCalls |-> <<title>>]
             ELSE [artist |-> split.artist, track |-> split.track,
                   splitCalls |-> <<title>>]

\* Video titles: a beginning (nothing, a [genre] tag with and without a
\* dash behind it, brackets that are no tag) and up to MaxTitle characters
\* of a letter, a space and a double quote.
TitleAlphabet == {"a", " ", "\""}
RECURSIVE TitlesOfLen(_)
TitlesOfLen(n) ==
    IF n = 0 THEN {<<>>}
    ELSE {Append(t, c) : t \in TitlesOfLen(n - 1), c \in TitleAlphabet}
TitleStarts ==
    {<<>>, <<"[", "a", "]">>, <<"[", "a", "]", " ", "-", " ">>,
     <<"[", "]">>, <<"[", "a">>}
Titles ==
    {Null} \cup {start \o t : start \in TitleStarts,
                              t \in UNION {TitlesOfLen(n) : n \in 0..MaxTitle}}

\* What Connector.splitArtistTrack can return: an object whose artist and
\* track are null, empty or a text.
SplitResults ==
    [artist : {Null, <<>>, <<"a">>}, track : {Null, <<>>, <<"a">>}]

NoTitleCall == [made |-> FALSE, artist |-> Null, track |-> Null,
                splitCalls |-> <<>>]

\* A call processYoutubeVideoTitle(rawText).
callProcessYoutubeVideoTitle ==
    /\ ~titleCall.made
    /\ LET r == processYoutubeVideoTitle(rawText, splitResult)
       IN  titleCall' = [made |-> TRUE, artist |-> r.artist,
                         track |-> r.track, splitCalls |-> r.splitCalls]
    /\ UNCHANGED <<rawText, splitResult>>

-----------------------------------------------------------------------------
(* The getters of the Material player (setupMaterialPlayer and              *)
(* setupBasePlayer).                                                        *)

\* undefined where a text or a number is read: the attribute or property of
\* an empty selection.
UndefinedValue == <<"<undefined>">>

\* videoUrl.match(/v=(.+)&?/) of lines 116-117: the greedy group takes all
\* that follows the first "v=", an "&" and what follows it included.
matchVideoId(videoUrl) ==
    LET k == FirstIndex(videoUrl, <<"v", "=">>)
    IN  IF k > 0 /\ Len(videoUrl) >= k + 2 THEN Drop(videoUrl, k + 1)
        ELSE Null

\* Connector.getArtistTrack of setupMaterialPlayer (lines 93-104).
getArtistTrack(offscreen, text, split) ==
    IF offscreen THEN NullPair
    ELSE [artist |-> processYoutubeVideoTitle(text, split).artist,
          track |-> processYoutubeVideoTitle(text, split).track]

\* Connector.getUniqueID of setupMaterialPlayer (lines 106-123);
\* videoUrl.match is a TypeError when the link has no href.
getUniqueID(offscreen, videoUrl) ==
    IF offscreen THEN Returns(Null)
    ELSE IF videoUrl = UndefinedValue THEN Raises
    ELSE Returns(matchVideoId(videoUrl))

\* getCurrentTime reading the property whatever the off-screen check says.
getCurrentTimeNoCheck(offscreen, currentTime) == currentTime

\* Connector.getCurrentTime (lines 158-163).
getCurrentTime(offscreen, currentTime) ==
    IF offscreen THEN Null ELSE currentTime

\* Connector.getDuration (lines 165-170).
getDuration(offscreen, duration) ==
    IF offscreen THEN Null ELSE duration

\* What the elements the getters read can hold.  title: the text of
\* h1.title.ytd-video-primary-info-renderer, empty when there is none;
\* href: of .ytp-title-link; currentTime and duration: of the video element
\* (the number as read), undefined when there is none.
Pages ==
    [title : {<<>>, <<"a">>, <<"a", " ", "\"", "a", "\"">>},
     href : {UndefinedValue, <<"w">>, <<"v", "=", "a">>,
             <<"v", "=", "a", "&", "t">>},
     currentTime : {UndefinedValue, <<"1">>},
     duration : {UndefinedValue, <<"2">>}]

NoGot == [made |-> FALSE, getter |-> "", offscreen |-> FALSE,
          raised |-> FALSE, result |-> Null]

Got(getter, raised, result) ==
    [made |-> TRUE, getter |-> getter, offscreen |-> isPlayerOffscreen,
     raised |-> raised, result |-> result]

\* The core calls one of the getters.
callGetArtistTrack ==
    /\ ~got.made
    /\ got' = Got("getArtistTrack", FALSE,
                  getArtistTrack(isPlayerOffscreen, page.title, splitResult))
    /\ UNCHANGED page

callGetUniqueID ==
    /\ ~got.made
    /\ got' = Got("getUniqueID",
                  getUniqueID(isPlayerOffscreen, page.href).raised,
                  getUniqueID(isPlayerOffscreen, page.href).out)
    /\ UNCHANGED page

callGetCurrentTime ==
    /\ ~got.made
    /\ got' = Got("getCurrentTime", FALSE,
                  getCurrentTime(isPlayerOffscreen, page.currentTime))
    /\ UNCHANGED page

callGetDuration ==
    /\ ~got.made
    /\ got' = Got("getDuration", FALSE,
                  getDuration(isPlayerOffscreen, page.duration))
    /\ UNCHANGED page

\* The core takes what the getter gave.
getterReturns ==
    /\ got.made
    /\ got' = NoGot
    /\ UNCHANGED page

-----------------------------------------------------------------------------
(* notifications.js: showNotification and the click listeners. *)

\* The showNotification calls followed, and the IDs the browser gives to
\* the notifications it creates (a new one for each, the ID asked for being
\* '').
Shows == 1..MaxShows
Ids == 1..MaxShows

\* No listener for an ID in clickListeners; the listener passed by the c-th
\* call is written c.
NoListener == 0

\* var clickListeners = {} (line 18): a map without keys.
NoListeners == [id \in {} |-> NoListener]

\* clickListeners[notificationId], undefined read as NoListener.
listenerOf(map, notificationId) ==
    IF notificationId \in DOMAIN map THEN map[notificationId] ELSE NoListener

\* clickListeners[notificationId] = callback (lines 46-48).
addOnClickedListener(map, notificationId, callback) ==
    [id \in DOMAIN map \cup {notificationId} |->
        IF id = notificationId THEN callback ELSE map[id]]

\* removeOnClickedListener leaving the map as it is.
removeOnClickedListenerNothing(map, notificationId) == map

\* removeOnClickedListener (lines 54-58).
removeOnClickedListener(map, notificationId) ==
    IF listenerOf(map, notificationId) # NoListener
    THEN [id \in DOMAIN map \ {notificationId} |-> map[id]]
    ELSE map

\* A showNotification call.
\*   phase      "permission" getPermissionLevel asked; "creating"
\*              chrome.notifications.create called; "done"
\*   onClicked  whether a function was passed as onClicked
\*   available, level, threw   what isAvailable, getPermissionLevel and
\*              create gave this call
\*   creates    notifications created for the call
\*   id         the ID of the notification created for it
\*   resolves, rejects   calls of resolve and of reject (Promise.reject()
\*              counting as one of reject)
\*   value      what the promise was resolved with
\*   listener   clickListeners[id] when resolve was called
Show(phase, onClicked, available, rejects) ==
    [phase |-> phase, onClicked |-> onClicked, available |-> available,
     level |-> "", threw |-> FALSE, creates |-> 0, id |-> 0,
     resolves |-> 0, rejects |-> rejects, value |-> 0,
     listener |-> NoListener]

\* createNotification creating whatever the permission level.
createNotificationAnyLevel(permissionLevel, throws) ==
    IF throws THEN "reject" ELSE "create"

\* createNotification (lines 91-101): what it does for a permission level,
\* throws telling whether chrome.notifications.create raises.
createNotification(permissionLevel, throws) ==
    IF permissionLevel # "granted" THEN "reject"
    ELSE IF throws THEN "reject"
    ELSE "create"

\* showNotification(options, onClicked) (lines 66-105) up to its return:
\* a rejected promise when the API is not there, else a pending one and the
\* permission level asked for.
showNotification(onClicked, available) ==
    /\ Len(shows) < MaxShows
    /\ shows' = Append(shows,
          IF available THEN Show("permission", onClicked, TRUE, 0)
          ELSE Show("done", onClicked, FALSE, 1))
    /\ UNCHANGED <<clickListeners, notifications, clicked>>

\* The browser answers getPermissionLevel: createNotification runs.  The
\* browser gives the notification it creates the next unused ID.
permissionCallback(c, permissionLevel, throws) ==
    /\ c \in DOMAIN shows
    /\ shows[c].phase = "permission"
    /\ IF createNotification(permissionLevel, throws) = "create"
       THEN /\ shows' = [shows EXCEPT ![c] =
                   [@ EXCEPT !.phase = "creating", !.level = permissionLevel,
                             !.creates = @ + 1,
                             !.id = Len(notifications) + 1]]
            /\ notifications' = Append(notifications, "creating")
       ELSE /\ shows' = [shows EXCEPT ![c] =
                   [@ EXCEPT !.phase = "done", !.level = permissionLevel,
                             !.threw = (permissionLevel = "granted"),
                             !.rejects = @ + 1]]
            /\ UNCHANGED notifications
    /\ UNCHANGED <<clickListeners, clicked>>

\* The browser calls notificationCreatedCb (lines 85-90) with the ID: the
\* listener is added, then the promise resolved.  The notification's events
\* come after this callback.
notificationCreatedCb(c) ==
    /\ c \in DOMAIN shows
    /\ shows[c].phase = "creating"
    /\ LET id == shows[c].id
           added == IF shows[c].onClicked
                    THEN addOnClickedListener(clickListeners, id, c)
                    ELSE clickListeners
       IN  /\ clickListeners' = added
           /\ shows' = [shows EXCEPT ![c] =
                 [@ EXCEPT !.phase = "done", !.resolves = @ + 1,
                           !.value = id, !.listener = listenerOf(added, id)]]
           /\ notifications' = [notifications EXCEPT ![id] = "open"]
    /\ UNCHANGED clicked

NoClick == [id |-> 0, called |-> NoListener, closed |-> FALSE]

\* The listener of chrome.notifications.onClicked (lines 228-234).  The
\* event of a notification that is closed already is followed too.
onClicked(notificationId) ==
    /\ notificationId \in DOMAIN notifications
    /\ notifications[notificationId] \in {"open", "closed"}
    /\ clicked' = [id |-> notificationId,
                   called |-> listenerOf(clickListeners, notificationId),
                   closed |-> (notifications[notificationId] = "closed")]
    /\ UNCHANGED <<clickListeners, shows, notifications>>

\* The listener of chrome.notifications.onClosed (lines 235-237); the
\* browser closes a notification once.
onClosed(notificationId) ==
    /\ notificationId \in DOMAIN notifications
    /\ notifications[notificationId] = "open"
    /\ notifications' = [notifications EXCEPT ![notificationId] = "closed"]
    /\ clickListeners' = removeOnClickedListener(clickListeners, notificationId)
    /\ UNCHANGED <<shows, clicked>>

-----------------------------------------------------------------------------
(* notifications.js: showAuthenticate and showSignInError. *)

\* The URLs authUrlGetter resolves with.
AuthUrls == {"auth1", "auth2"}

\* chrome.tabs.create({ url: 'http://status.last.fm/' }) (line 154).
StatusUrl == "http://status.last.fm/"

\* A showAuthenticate call.
\*   phase    "getter" authUrlGetter() called and pending; "resolved";
\*            "rejected"
\*   authUrl  what authUrlGetter resolved with
\*   show     the showNotification call made for it (its place in shows)
Auth(phase, authUrl, show) ==
    [phase |-> phase, authUrl |-> authUrl, show |-> show]

\* A window or tab opened by the a-th showAuthenticate call: click is the
\* ID of the notification whose click listener opened it, 0 when it was
\* opened by the handler of the rejected showNotification promise.
Opened(what, url, a, click) ==
    [what |-> what, url |-> url, auth |-> a, click |-> click]

\* The showAuthenticate call that made the c-th showNotification call.
authOf(c) == CHOOSE a \in DOMAIN auths : auths[a].show = c

\* The listener the c-th showNotification call passed, called for a click
\* on notificationId: onClicked of showAuthenticate (lines 169-173) opens
\* the auth window, the listener of showSignInError (lines 153-155) the
\* status page in a tab.
callListener(c, notificationId) ==
    IF c = NoListener THEN <<>>
    ELSE IF auths[authOf(c)].phase = "resolved"
    THEN <<Opened("window", auths[authOf(c)].authUrl, authOf(c),
                  notificationId)>>
    ELSE <<Opened("tab", StatusUrl, authOf(c), notificationId)>>

\* The handlers of showAuthenticate opening the window however the promise
\* of showNotification was settled.
showNotificationSettledAlwaysOpens(a, authUrl, rejected) ==
    <<Opened("window", authUrl, a, 0)>>

\* .then(...).catch(...) on the promise of showNotification (lines
\* 175-182): the window is opened when it was rejected.  The handlers run
\* when the promise is settled, before any other callback or event.
showNotificationSettled(a, authUrl, rejected) ==
    IF rejected THEN <<Opened("window", authUrl, a, 0)>> ELSE <<>>

\* showAuthenticate(authUrlGetter) (lines 163-184) up to its return:
\* authUrlGetter() is called and its promise pending.
showAuthenticate ==
    /\ Len(auths) < MaxShows
    /\ auths' = Append(auths, Auth("getter", "", 0))
    /\ UNCHANGED <<opened, notifVars>>

\* authUrlGetter resolves: the handler of lines 164-183 calls
\* showNotification with onClicked.
authUrlGetterResolves(a, authUrl, available) ==
    /\ a \in DOMAIN auths
    /\ auths[a].phase = "getter"
    /\ showNotification(TRUE, available)
    /\ auths' = [auths EXCEPT ![a] = Auth("resolved", authUrl, Len(shows) + 1)]
    /\ opened' = opened \o showNotificationSettled(a, authUrl, ~available)

\* authUrlGetter rejects: showSignInError (lines 152-156) calls showError
\* (lines 139-147), which calls showNotification with a listener and
\* ignores its rejection (.catch(nop)).
showSignInError(a, available) ==
    /\ a \in DOMAIN auths
    /\ auths[a].phase = "getter"
    /\ showNotification(TRUE, available)
    /\ auths' = [auths EXCEPT ![a] = Auth("rejected", "", Len(shows) + 1)]
    /\ UNCHANGED opened

\* The browser answers getPermissionLevel for a call made by
\* showAuthenticate or showSignInError.
authPermissionCallback(c, permissionLevel, throws) ==
    /\ permissionCallback(c, permissionLevel, throws)
    /\ opened' =
          IF auths[authOf(c)].phase = "resolved"
          THEN opened \o showNotificationSettled(authOf(c),
                  auths[authOf(c)].authUrl,
                  createNotification(permissionLevel, throws) = "reject")
          ELSE opened
    /\ UNCHANGED auths

\* The browser calls notificationCreatedCb: the promise is resolved.
authNotificationCreatedCb(c) ==
    /\ notificationCreatedCb(c)
    /\ opened' =
          IF auths[authOf(c)].phase = "resolved"
          THEN opened \o showNotificationSettled(authOf(c),
                  auths[authOf(c)].authUrl, FALSE)
          ELSE opened
    /\ UNCHANGED auths

\* A click on a notification: the listener of clickListeners, if any, runs.
authOnClicked(notificationId) ==
    /\ Len(opened) < MaxOpened
    /\ onClicked(notificationId)
    /\ opened' = opened \o
          callListener(listenerOf(clickListeners, notificationId),
                       notificationId)
    /\ UNCHANGED auths

\* A notification is closed.
authOnClosed(notificationId) ==
    /\ onClosed(notificationId)
    /\ UNCHANGED authVars

-----------------------------------------------------------------------------
(* The host page.  YouTube moves, hides and replaces its nodes at will. *)

HostMovesPlayer ==
    /\ \E p \in BOOLEAN, l \in Coord, t \in Coord :
          /\ anchorPresent' = p
          /\ offsetLeft' = (IF p THEN l ELSE 0)
          /\ offsetTop' = (IF p THEN t ELSE 0)
    /\ UNCHANGED <<player, video, isMusicVideoPresent, listeners, log,
                   lastAnchor, tick>>

\* The video element is removed, or replaced by a new one.
HostReplacesVideo ==
    /\ \E v \in 0..MaxVideo : v # video /\ video' = v
    /\ UNCHANGED <<player, anchorPresent, offsetLeft, offsetTop,
                   isMusicVideoPresent, listeners, log, lastAnchor, tick>>

-----------------------------------------------------------------------------

\* The connector's options part while the player observer is followed: the
\* read was issued by setupConnector (default player only) and nothing of it
\* is followed further.
OptionsIdle ==
    /\ scrobbleMusicOnly = FALSE
    /\ optionsRead = (IF player = "default" THEN "pending" ELSE "none")
    /\ storage = [shape |-> "undefined", scrobbleMusicOnly |-> Undefined]
    /\ genre = Undefined
    /\ lastQuery = NoQuery

\* The filter while the connector is followed: constructed, never called.
FilterIdle ==
    /\ filterSet = TrimFilterSet
    /\ mergedFilterSet = createMergedFilters(TrimFilterSet)
    /\ call = NoCall

\* No call of filterWithFilterSet is followed.
RulesIdle ==
    /\ rules = <<>>
    /\ ruleText = <<>>
    /\ ruleCall = NoRuleCall

\* No filter set of the caller is followed by reference.
ObjectsIdle ==
    /\ arrays = <<>>
    /\ filterSetObj = [artist |-> AbsentSlot, track |-> AbsentSlot,
                       album |-> AbsentSlot, all |-> AbsentSlot]
    /\ filterObjs = <<>>

\* No call of processYoutubeVideoTitle is followed.
TitleIdle ==
    /\ rawText = Null
    /\ splitResult = NullPair
    /\ titleCall = NoTitleCall

\* No getter of the connector is followed.
GettersIdle ==
    /\ page = [title |-> <<>>, href |-> UndefinedValue,
               currentTime |-> UndefinedValue, duration |-> UndefinedValue]
    /\ got = NoGot

\* The notifications module loaded, nothing shown.
NotificationsIdle ==
    /\ clickListeners = NoListeners
    /\ shows = <<>>
    /\ notifications = <<>>
    /\ clicked = NoClick

\* showAuthenticate not called, no window or tab opened.
AuthIdle ==
    /\ auths = <<>>
    /\ opened = <<>>

\* The parts followed under specifications of their own, at rest.
RestIdle ==
    /\ RulesIdle
    /\ ObjectsIdle
    /\ TitleIdle
    /\ GettersIdle
    /\ NotificationsIdle
    /\ AuthIdle

\* The state after setupConnector() has run.
Init ==
    /\ player \in {"default", "material"}
    /\ anchorPresent \in BOOLEAN
    /\ offsetLeft \in (IF anchorPresent THEN Coord ELSE {0})
    /\ offsetTop \in (IF anchorPresent THEN Coord ELSE {0})
    /\ video \in 0..MaxVideo
    /\ isMusicVideoPresent = FALSE
    /\ listeners = [e \in VideoIds |-> 0]
    /\ log = <<>>
    /\ lastAnchor = anchorPresent
    /\ tick = [el |-> 0, calls |-> 0]
    /\ OptionsIdle
    /\ FilterIdle
    /\ RestIdle

Next ==
    \/ /\ \E faulty \in BOOLEAN : playerObserver(faulty)
       /\ UNCHANGED <<optionsVars, filterVars, restVars>>
    \/ /\ timeupdate
       /\ UNCHANGED <<optionsVars, filterVars, restVars>>
    \/ /\ HostMovesPlayer
       /\ UNCHANGED <<optionsVars, filterVars, restVars>>
    \/ /\ HostReplacesVideo
       /\ UNCHANGED <<optionsVars, filterVars, restVars>>

Spec == Init /\ [][Next]_vars

\* The options part followed on its own: the page is left as it was at
\* inject, and the storage holds any of the shapes above.
OptionsInit ==
    /\ player \in {"default", "material"}
    /\ anchorPresent = FALSE
    /\ offsetLeft = 0
    /\ offsetTop = 0
    /\ video = 0
    /\ isMusicVideoPresent = FALSE
    /\ listeners = [e \in VideoIds |-> 0]
    /\ log = <<>>
    /\ lastAnchor = FALSE
    /\ tick = [el |-> 0, calls |-> 0]
    /\ scrobbleMusicOnly = FALSE
    /\ optionsRead = (IF player = "default" THEN "pending" ELSE "none")
    /\ storage \in StorageData
    /\ genre \in Genres
    /\ lastQuery = NoQuery
    /\ FilterIdle
    /\ RestIdle

OptionsNext ==
    \/ /\ callIsStateChangeAllowed
       /\ UNCHANGED <<detectorVars, filterVars, restVars>>
    \/ /\ storageCallback
       /\ UNCHANGED <<detectorVars, filterVars, restVars>>
    \/ /\ HostSetsGenre
       /\ UNCHANGED <<detectorVars, filterVars, restVars>>

OptionsSpec == OptionsInit /\ [][OptionsNext]_vars

\* The connector at rest while a filter is followed.
ConnectorIdle ==
    /\ player = "default"
    /\ anchorPresent = FALSE
    /\ offsetLeft = 0
    /\ offsetTop = 0
    /\ video = 0
    /\ isMusicVideoPresent = FALSE
    /\ listeners = [e \in VideoIds |-> 0]
    /\ log = <<>>
    /\ lastAnchor = FALSE
    /\ tick = [el |-> 0, calls |-> 0]
    /\ OptionsIdle

\* The state after new MetadataFilter(filterSet), for any filter set.
FilterInit ==
    /\ ConnectorIdle
    /\ RestIdle
    /\ filterSet \in FilterSets
    /\ mergedFilterSet = createMergedFilters(filterSet)
    /\ call = NoCall

FilterNext ==
    \/ /\ \E text \in Texts : filterArtist(text)
       /\ UNCHANGED <<detectorVars, optionsVars, restVars>>
    \/ /\ \E text \in Texts : filterTrack(text)
       /\ UNCHANGED <<detectorVars, optionsVars, restVars>>
    \/ /\ \E text \in Texts : filterAlbum(text)
       /\ UNCHANGED <<detectorVars, optionsVars, restVars>>
    \/ /\ callReturns
       /\ UNCHANGED <<detectorVars, optionsVars, restVars>>

FilterSpec == FilterInit /\ [][FilterNext]_vars

-----------------------------------------------------------------------------
(* MetadataFilter: filter sets of other shapes. *)

\* A property of the filter set holding something that is neither a function
\* nor an array (a string, a number, an object, null).
Other == [shape |-> "other", fns |-> <<>>]

\* An element of an array that is not a function; calling it is a TypeError,
\* which Apply gives for every name that is not a predefined filter.
NotAFunction == "notAFunction"

\* What a property holds here: nothing, a value of another type, a function,
\* an array of functions, an array holding something else.
SlotShapes ==
    {Absent, Other, Function("trim"),
     Array(<<"trim", "removeZeroWidth">>), Array(<<"trim", NotAFunction>>)}

MalformedFilterSets ==
    [artist : SlotShapes, track : SlotShapes, album : SlotShapes,
     all : SlotShapes]

\* The state after new MetadataFilter(filterSet) for these filter sets.
ShapeInit ==
    /\ ConnectorIdle
    /\ RestIdle
    /\ filterSet \in MalformedFilterSets
    /\ mergedFilterSet = createMergedFilters(filterSet)
    /\ call = NoCall

ShapeSpec == ShapeInit /\ [][FilterNext]_vars

-----------------------------------------------------------------------------
(* MetadataFilter: the predefined filter objects. *)

\* The state after getTrimFilter(), getYoutubeFilter() or
\* getRemasteredFilter().
PresetInit ==
    /\ ConnectorIdle
    /\ RestIdle
    /\ filterSet \in Presets
    /\ mergedFilterSet = createMergedFilters(filterSet)
    /\ call = NoCall

PresetSpec == PresetInit /\ [][FilterNext]_vars

-----------------------------------------------------------------------------
(* MetadataFilter.filterWithFilterSet followed on its own. *)

RuleInit ==
    /\ ConnectorIdle
    /\ FilterIdle
    /\ GettersIdle
    /\ NotificationsIdle
    /\ AuthIdle
    /\ ObjectsIdle
    /\ TitleIdle
    /\ rules \in RuleTables
    /\ ruleText \in Strings
    /\ ruleCall = NoRuleCall

RuleNext ==
    /\ callFilterWithFilterSet
    /\ UNCHANGED <<detectorVars, optionsVars, filterVars, objectVars,
                   titleVars, getterVars, notifVars,
                      authVars>>

RuleSpec == RuleInit /\ [][RuleNext]_vars

-----------------------------------------------------------------------------
(* The filter set as an object of the caller, followed on its own. *)

ObjectSlots ==
    {AbsentSlot, FunctionSlot("removeZeroWidth"), ArrayAt(1), ArrayAt(2)}

\* The caller has made two arrays and a filter set; the same array may be
\* the value of more than one property.
ObjectInit ==
    /\ ConnectorIdle
    /\ FilterIdle
    /\ GettersIdle
    /\ NotificationsIdle
    /\ AuthIdle
    /\ RulesIdle
    /\ TitleIdle
    /\ arrays \in {<<a1, a2>> : a1 \in {<<>>, <<"trim">>},
                                a2 \in {<<>>, <<"trim">>}}
    /\ filterSetObj \in [artist : {AbsentSlot, ArrayAt(1)},
                         track : ObjectSlots, album : {AbsentSlot},
                         all : ObjectSlots]
    /\ filterObjs = <<>>

ObjectNext ==
    \/ /\ construct
       /\ UNCHANGED <<detectorVars, optionsVars, filterVars, ruleVars,
                      titleVars, getterVars, notifVars,
                      authVars>>
    \/ /\ callerPushes
       /\ UNCHANGED <<detectorVars, optionsVars, filterVars, ruleVars,
                      titleVars, getterVars, notifVars,
                      authVars>>
    \/ /\ callerDeletes
       /\ UNCHANGED <<detectorVars, optionsVars, filterVars, ruleVars,
                      titleVars, getterVars, notifVars,
                      authVars>>

ObjectSpec == ObjectInit /\ [][ObjectNext]_vars

-----------------------------------------------------------------------------
(* processYoutubeVideoTitle followed on its own. *)

TitleInit ==
    /\ ConnectorIdle
    /\ FilterIdle
    /\ GettersIdle
    /\ NotificationsIdle
    /\ AuthIdle
    /\ RulesIdle
    /\ ObjectsIdle
    /\ rawText \in Titles
    /\ splitResult \in SplitResults
    /\ titleCall = NoTitleCall

TitleNext ==
    /\ callProcessYoutubeVideoTitle
    /\ UNCHANGED <<detectorVars, optionsVars, filterVars, ruleVars,
                   objectVars, getterVars, notifVars,
                      authVars>>

TitleSpec == TitleInit /\ [][TitleNext]_vars

-----------------------------------------------------------------------------
(* The getters of the Material player followed on their own. *)

\* The state after setupConnector() on a Material page, the observer not
\* followed.
GetterInit ==
    /\ player = "material"
    /\ anchorPresent \in BOOLEAN
    /\ offsetLeft \in (IF anchorPresent THEN Coord ELSE {0})
    /\ offsetTop \in (IF anchorPresent THEN Coord ELSE {0})
    /\ video = 0
    /\ isMusicVideoPresent = FALSE
    /\ listeners = [e \in VideoIds |-> 0]
    /\ log = <<>>
    /\ lastAnchor = anchorPresent
    /\ tick = [el |-> 0, calls |-> 0]
    /\ OptionsIdle
    /\ FilterIdle
    /\ RulesIdle
    /\ ObjectsIdle
    /\ rawText = Null
    /\ splitResult \in {NullPair, [artist |-> <<"a">>, track |-> <<"a">>]}
    /\ titleCall = NoTitleCall
    /\ page \in Pages
    /\ got = NoGot
    /\ NotificationsIdle
    /\ AuthIdle

GetterNext ==
    \/ /\ callGetArtistTrack
       /\ UNCHANGED <<detectorVars, optionsVars, filterVars, ruleVars,
                      objectVars, titleVars, notifVars,
                      authVars>>
    \/ /\ callGetUniqueID
       /\ UNCHANGED <<detectorVars, optionsVars, filterVars, ruleVars,
                      objectVars, titleVars, notifVars,
                      authVars>>
    \/ /\ callGetCurrentTime
       /\ UNCHANGED <<detectorVars, optionsVars, filterVars, ruleVars,
                      objectVars, titleVars, notifVars,
                      authVars>>
    \/ /\ callGetDuration
       /\ UNCHANGED <<detectorVars, optionsVars, filterVars, ruleVars,
                      objectVars, titleVars, notifVars,
                      authVars>>
    \/ /\ getterReturns
       /\ UNCHANGED <<detectorVars, optionsVars, filterVars, ruleVars,
                      objectVars, titleVars, notifVars,
                      authVars>>
    \/ /\ HostMovesPlayer
       /\ UNCHANGED <<optionsVars, filterVars, ruleVars, objectVars,
                      titleVars, getterVars, notifVars,
                      authVars>>

GetterSpec == GetterInit /\ [][GetterNext]_vars

-----------------------------------------------------------------------------
(* The notifications followed on their own. *)

NotifInit ==
    /\ ConnectorIdle
    /\ FilterIdle
    /\ RulesIdle
    /\ ObjectsIdle
    /\ TitleIdle
    /\ GettersIdle
    /\ NotificationsIdle
    /\ AuthIdle

NotifNext ==
    \/ /\ \E f \in BOOLEAN, available \in BOOLEAN :
             showNotification(f, available)
       /\ UNCHANGED <<detectorVars, optionsVars, filterVars, ruleVars,
                      objectVars, titleVars, getterVars,
                      authVars>>
    \/ /\ \E c \in Shows, level \in {"granted", "denied"},
               throws \in BOOLEAN :
             permissionCallback(c, level, throws)
       /\ UNCHANGED <<detectorVars, optionsVars, filterVars, ruleVars,
                      objectVars, titleVars, getterVars,
                      authVars>>
    \/ /\ \E c \in Shows : notificationCreatedCb(c)
       /\ UNCHANGED <<detectorVars, optionsVars, filterVars, ruleVars,
                      objectVars, titleVars, getterVars,
                      authVars>>
    \/ /\ \E id \in Ids : onClicked(id)
       /\ UNCHANGED <<detectorVars, optionsVars, filterVars, ruleVars,
                      objectVars, titleVars, getterVars,
                      authVars>>
    \/ /\ \E id \in Ids : onClosed(id)
       /\ UNCHANGED <<detectorVars, optionsVars, filterVars, ruleVars,
                      objectVars, titleVars, getterVars,
                      authVars>>

\* The browser calls every callback it was given: the one of
\* getPermissionLevel and the one of create.
permissionAnswered(c) ==
    \E level \in {"granted", "denied"}, throws \in BOOLEAN :
       permissionCallback(c, level, throws)

NotifFairness ==
    \A c \in Shows :
       /\ WF_notifVars(permissionAnswered(c))
       /\ WF_notifVars(notificationCreatedCb(c))

NotifSpec == NotifInit /\ [][NotifNext]_vars /\ NotifFairness

\* showAuthenticate, the callbacks of the browser for the notifications it
\* asks for, and the clicks on them and their closing.
AuthInit ==
    /\ ConnectorIdle
    /\ FilterIdle
    /\ RestIdle

AuthNext ==
    \/ /\ showAuthenticate
       /\ UNCHANGED <<detectorVars, optionsVars, filterVars, ruleVars,
                      objectVars, titleVars, getterVars>>
    \/ /\ \E a \in Shows, authUrl \in AuthUrls, available \in BOOLEAN :
             authUrlGetterResolves(a, authUrl, available)
       /\ UNCHANGED <<detectorVars, optionsVars, filterVars, ruleVars,
                      objectVars, titleVars, getterVars>>
    \/ /\ \E a \in Shows, available \in BOOLEAN :
             showSignInError(a, available)
       /\ UNCHANGED <<detectorVars, optionsVars, filterVars, ruleVars,
                      objectVars, titleVars, getterVars>>
    \/ /\ \E c \in Shows, level \in {"granted", "denied"},
               throws \in BOOLEAN :
             authPermissionCallback(c, level, throws)
       /\ UNCHANGED <<detectorVars, optionsVars, filterVars, ruleVars,
                      objectVars, titleVars, getterVars>>
    \/ /\ \E c \in Shows : authNotificationCreatedCb(c)
       /\ UNCHANGED <<detectorVars, optionsVars, filterVars, ruleVars,
                      objectVars, titleVars, getterVars>>
    \/ /\ \E id \in Ids : authOnClicked(id)
       /\ UNCHANGED <<detectorVars, optionsVars, filterVars, ruleVars,
                      objectVars, titleVars, getterVars>>
    \/ /\ \E id \in Ids : authOnClosed(id)
       /\ UNCHANGED <<detectorVars, optionsVars, filterVars, ruleVars,
                      objectVars, titleVars, getterVars>>

AuthSpec == AuthInit /\ [][AuthNext]_vars

-----------------------------------------------------------------------------
(* Readings of the observer's log. *)

Preds == [i \in DOMAIN log |-> log[i].pred]

RECURSIVE SumAttach(_)
SumAttach(n) == IF n = 0 THEN 0 ELSE log[n].attach + SumAttach(n - 1)
\* $(videoSelector).on('timeupdate', ...) calls made so far.
AttachCalls == SumAttach(Len(log))

RECURSIVE SumEmit(_)
SumEmit(n) == IF n = 0 THEN 0 ELSE log[n].emit + SumEmit(n - 1)
\* Connector.onStateChanged() calls made by the observer so far.
ObserverSignals == SumEmit(Len(log))

\* isMusicVideoPresent when the i-th run of the callback started.
FlagBefore(i) == IF i = 1 THEN FALSE ELSE log[i - 1].flag

\* The i-th observation is the first one that found the player on screen.
FirstOnSurface(i) ==
    /\ log[i].pred = "on"
    /\ \A j \in 1..(i - 1) : log[j].pred # "on"

OffCount == Cardinality({i \in DOMAIN log : log[i].pred = "off"})

RECURSIVE SumHooked(_)
SumHooked(n) == IF n = 0 THEN 0 ELSE log[n].hooked + SumHooked(n - 1)
\* Listeners added by the observations so far, less those taken away.
HookedListeners == SumHooked(Len(log))

-----------------------------------------------------------------------------
(* C1: over any sequence of mutation observations the 'timeupdate' hook is  *)
(* attached at most once: the attach call is made, and the flag set, at the *)
(* first observation whose off-screen check is false; every later           *)
(* on-surface observation attaches nothing and emits nothing.  For the      *)
(* sequence on, on, off, on there is exactly one attach (first event) and   *)
(* exactly one onStateChanged from the observer (third event).              *)
C1_AttachAtMostOnce ==
    /\ AttachCalls <= 1
    /\ \A e \in VideoIds : listeners[e] <= 1
    /\ TotalListeners(listeners) <= 1
    /\ \A i \in DOMAIN log :
          log[i].pred = "on" =>
             /\ log[i].attach = (IF FirstOnSurface(i) THEN 1 ELSE 0)
             /\ ~FirstOnSurface(i) => log[i].hooked = 0
             /\ log[i].flag = TRUE
             /\ log[i].emit = 0
    /\ Preds = <<"on", "on", "off", "on">> =>
          /\ AttachCalls = 1
          /\ log[1].attach = 1
          /\ ObserverSignals = 1
          /\ log[3].emit = 1

C1_Witness ==
    /\ Preds = <<"on", "on", "off", "on">>
    /\ TotalListeners(listeners) = 1

(* C2: every observation whose off-screen check is true emits exactly one   *)
(* onStateChanged, whatever the flag, attaches nothing and leaves the flag  *)
(* as it was; no observation both attaches and emits; k off-surface         *)
(* observations emit k signals.                                             *)
C2_OffSurfaceEmitsOnce ==
    /\ \A i \in DOMAIN log :
          /\ log[i].pred = "off" =>
                /\ log[i].emit = 1
                /\ log[i].attach = 0
                /\ log[i].hooked = 0
                /\ log[i].flag = FlagBefore(i)
                /\ ~log[i].raised
          /\ ~(log[i].attach > 0 /\ log[i].emit > 0)
    /\ ObserverSignals = OffCount

\* Off-surface observations before and after the hook was attached, two of
\* them consecutive.
C2_Witness ==
    /\ Preds = <<"off", "on", "off", "off">>
    /\ ObserverSignals = 3
    /\ log[1].flag = FALSE
    /\ log[3].flag = TRUE

(* C3: when the anchor element of the off-screen check is absent,           *)
(* isPlayerOffscreen is false for either player, and the observation is     *)
(* handled as on-surface: no signal, and the hook is attached if it was not *)
(* attached yet.                                                            *)
C3_MissingAnchorIsOnSurface ==
    /\ ~anchorPresent => ~isPlayerOffscreen
    /\ (Len(log) > 0 /\ ~lastAnchor /\ ~log[Len(log)].raised) =>
          /\ log[Len(log)].pred = "on"
          /\ log[Len(log)].emit = 0
          /\ log[Len(log)].flag = TRUE
          /\ log[Len(log)].attach = (IF FlagBefore(Len(log)) THEN 0 ELSE 1)

\* The anchor was absent at the first observation, which attached the hook
\* to the video element.
C3_Witness ==
    /\ Len(log) = 1
    /\ ~lastAnchor
    /\ log[1].pred = "on"
    /\ log[1].attach = 1
    /\ log[1].hooked = 1

(* C4: when the off-screen check throws during an observation, the         *)
(* callback does not let the exception out, emits no signal, and attaches   *)
(* the hook if the flag was false (so the flag is true afterwards).         *)
C4_ThrowIsOnSurface ==
    \A i \in DOMAIN log :
       log[i].pred = "throw" =>
          /\ ~log[i].raised
          /\ log[i].emit = 0
          /\ log[i].flag = TRUE
          /\ log[i].attach = (IF FlagBefore(i) THEN 0 ELSE 1)

(* C6: before the options callback has been delivered,                      *)
(* isStateChangeAllowed (default player) answers true for every category   *)
(* and answers without waiting; in every state it answers false exactly    *)
(* when scrobbleMusicOnly is true and a category is available and is not    *)
(* 'Music'; the options callback is the only thing that changes             *)
(* scrobbleMusicOnly, and only from false to true.                          *)
C6_StateInv ==
    /\ (player = "default" /\ optionsRead = "pending") =>
          /\ ~scrobbleMusicOnly
          /\ \A c \in Genres : isStateChangeAllowed(c, scrobbleMusicOnly)
          /\ ENABLED callIsStateChangeAllowed
    /\ \A c \in Genres :
          isStateChangeAllowed(c, scrobbleMusicOnly)
             = ~(scrobbleMusicOnly /\ Truthy(c) /\ c # "Music")
    /\ lastQuery.asked =>
          /\ lastQuery.pending => lastQuery.result
          /\ lastQuery.result
                = ~(lastQuery.musicOnly /\ Truthy(lastQuery.category)
                       /\ lastQuery.category # "Music")

C6_FlagStep ==
    scrobbleMusicOnly' # scrobbleMusicOnly =>
       /\ ~scrobbleMusicOnly
       /\ scrobbleMusicOnly'
       /\ optionsRead = "pending"
       /\ optionsRead' = "delivered"

C6_DefaultsBeforeOptions == [](C6_StateInv) /\ [][C6_FlagStep]_vars

\* A video outside the Music category was let through while the stored
\* option, not yet delivered, asks for music only.
C6_Witness ==
    /\ lastQuery.asked
    /\ lastQuery.pending
    /\ lastQuery.category = "Gaming"
    /\ lastQuery.result
    /\ storage.shape = "YouTube"
    /\ storage.scrobbleMusicOnly = "true"
    /\ optionsRead = "pending"

-----------------------------------------------------------------------------
(* Readings of a filter call. *)

\* normalize of the filter set's documentation (lines 5-10): a function is
\* a list of one, an array is itself, anything else is the empty list.
Normalize(entry) ==
    CASE entry.shape = "function" -> <<entry.fns[1]>>
      [] entry.shape = "array" -> entry.fns
      [] OTHER -> <<>>

InvokedFns == [i \in DOMAIN call.invoked |-> call.invoked[i].fn]

\* The i-th filter call of the run got the text the run was given (i = 1) or
\* what the filter call before it returned.
Chained(i) ==
    call.invoked[i].arg
       = (IF i = 1 THEN call.text ELSE call.invoked[i - 1].out)

(* C7: for every compiled filter set and every field, filtering null gives  *)
(* null and filtering the empty string gives the empty string, and no       *)
(* filter function of the field is called.                                  *)
C7_NullAndEmptyPassThrough ==
    (call.made /\ (call.text = Null \/ call.text = <<>>)) =>
       /\ call.result = call.text
       /\ ~call.raised
       /\ call.invoked = <<>>

\* null was filtered by a field that has two filters compiled.
C7_Witness ==
    /\ call.made
    /\ call.text = Null
    /\ call.result = Null
    /\ Len(mergedFilterSet[call.field]) = 2

(* C8: for each field the compiled list is normalize(field entry) followed  *)
(* by normalize('all' entry); filtering a non-empty text calls these        *)
(* functions in that order, each on the previous one's result, and returns  *)
(* the last result; with removeZeroWidth on the track and trim on 'all',    *)
(* which do not commute on "z a", the result is that of the field rule      *)
(* run first.                                                               *)
C8_FieldFiltersBeforeAll ==
    /\ \A field \in Fields :
          mergedFilterSet[field]
             = Normalize(filterSet[field]) \o Normalize(filterSet.all)
    /\ (call.made /\ call.text # Null /\ call.text # <<>> /\ ~call.raised) =>
          /\ InvokedFns
                = Normalize(filterSet[call.field]) \o Normalize(filterSet.all)
          /\ \A i \in DOMAIN call.invoked : Chained(i)
          /\ call.result
                = (IF call.invoked = <<>> THEN call.text
                   ELSE call.invoked[Len(call.invoked)].out)
    /\ (/\ call.made
        /\ call.field = "track"
        /\ filterSet.track = Function("removeZeroWidth")
        /\ filterSet.all = Function("trim")
        /\ call.text = <<"z", " ", "a">>) =>
          /\ call.result = <<"a">>
          /\ call.result # removeZeroWidth(trim(call.text).out).out

C8_Witness ==
    /\ call.made
    /\ call.field = "track"
    /\ filterSet.track = Function("removeZeroWidth")
    /\ filterSet.all = Function("trim")
    /\ call.text = <<"z", " ", "a">>
    /\ call.result = <<"a">>
    /\ InvokedFns = <<"removeZeroWidth", "trim">>

(* C9: in every run of the filter engine no filter function is called with  *)
(* null or with the empty string, the second and later functions of a       *)
(* chain included, and no filter function returns null.                     *)
C9_FiltersNeverSeeNullOrEmpty ==
    \A i \in DOMAIN call.invoked :
       /\ call.invoked[i].arg # Null
       /\ call.invoked[i].arg # <<>>
       /\ ~call.invoked[i].raised => call.invoked[i].out # Null

(* C9 as amended: the first filter function of a chain is never called with *)
(* null or with the empty string; a later function is called with exactly   *)
(* what the function before it returned, which is never null but may be the *)
(* empty string; and no filter function returns null.                       *)
C9_OnlyFirstFilterIsGuarded ==
    \A i \in DOMAIN call.invoked :
       /\ Chained(i)
       /\ call.invoked[i].arg # Null
       /\ i = 1 => call.invoked[i].arg # <<>>
       /\ ~call.invoked[i].raised => call.invoked[i].out # Null

\* removeZeroWidth emptied the text and trim was then called with the empty
\* string.
C9_Witness ==
    /\ call.made
    /\ InvokedFns = <<"removeZeroWidth", "trim">>
    /\ call.text = <<"z">>
    /\ call.invoked[2].arg = <<>>
    /\ call.result = <<>>

(* C10: if a filter function raises while a field is filtered, the          *)
(* remaining filters are skipped and the call returns the text as filtered  *)
(* by the functions that ran before; the exception does not reach the       *)
(* caller.                                                                  *)
C10_FaultReturnsPartialResult ==
    \A i \in DOMAIN call.invoked :
       call.invoked[i].raised =>
          /\ i = Len(call.invoked)
          /\ ~call.raised
          /\ call.result = call.invoked[i].arg

(* C11: for every filter set whose properties each hold nothing, a          *)
(* function, an array (of any elements) or any other value, a property      *)
(* that is neither a function nor an array contributes no filter to any     *)
(* field, and no filterArtist / filterTrack / filterAlbum call raises.      *)
C11_MalformedSlotsNeverRaise ==
    /\ \A field \in Fields :
          /\ filterSet[field].shape \in {"undefined", "other"} =>
                mergedFilterSet[field] = createFilters(filterSet.all)
          /\ filterSet.all.shape \in {"undefined", "other"} =>
                mergedFilterSet[field] = createFilters(filterSet[field])
    /\ call.made => ~call.raised

-----------------------------------------------------------------------------
(* Readings of a filterWithFilterSet call. *)

Chars(text) == {text[i] : i \in DOMAIN text}

Occurrences(text, c) == Cardinality({i \in DOMAIN text : text[i] = c})

\* The pass replaced the leftmost match and nothing else.
OnlyFirstReplaced(st) ==
    LET k == FirstIndex(st.arg, st.source.chars)
    IN  IF k = 0 THEN st.out = st.arg
        ELSE st.out = SubSeq(st.arg, 1, k - 1) \o st.source.target
                         \o Drop(st.arg, k + Len(st.source.chars) - 1)

\* The pass replaced every match: none is left (where the target cannot
\* make a new one), and a one-character source is replaced as often as it
\* occurred.
AllReplaced(st) ==
    /\ FirstIndex(st.arg, st.source.chars) = 0 => st.out = st.arg
    /\ (/\ Chars(st.source.target) \cap Chars(st.source.chars) = {}
        /\ (st.source.target # <<>> \/ Len(st.source.chars) = 1)) =>
          FirstIndex(st.out, st.source.chars) = 0
    /\ Len(st.source.chars) = 1 =>
          Len(st.out) = Len(st.arg)
             + Occurrences(st.arg, st.source.chars[1])
                  * (Len(st.source.target) - 1)

\* The pass removed one run of the class at an edge, the leading one if
\* there is one.
OneEdgeReplaced(st) ==
    IF leadingRun(st.arg, st.source.class) > 0
    THEN st.out = Drop(st.arg, leadingRun(st.arg, st.source.class))
    ELSE st.out = DropLast(st.arg, trailingRun(st.arg, st.source.class))

\* The pass removed the runs of the class at both edges.
BothEdgesReplaced(st) ==
    /\ leadingRun(st.out, st.source.class) = 0
    /\ trailingRun(st.out, st.source.class) = 0
    /\ \E i \in 0..Len(st.arg) :
          /\ st.out = SubSeq(st.arg, i + 1, i + Len(st.out))
          /\ \A j \in 1..Len(st.arg) :
                (j <= i \/ j > i + Len(st.out)) =>
                   st.arg[j] \in st.source.class

(* C12: a call of filterWithFilterSet makes one pass for every rule of the  *)
(* array, in the array's order, each on the text the pass before it gave    *)
(* (changed or not), and returns what the last pass gave; a pass with a     *)
(* pattern that is not global replaces the leftmost match only, a pass with *)
(* a global pattern replaces every match.                                   *)
C12_EveryRuleOnceInOrder ==
    ruleCall.made =>
       /\ Len(ruleCall.steps) = Len(rules)
       /\ \A i \in DOMAIN ruleCall.steps :
             LET st == ruleCall.steps[i]
             IN  /\ st.source = rules[i]
                 /\ st.arg = (IF i = 1 THEN ruleText
                              ELSE ruleCall.steps[i - 1].out)
                 /\ (st.source.kind = "literal" /\ ~st.source.global) =>
                       OnlyFirstReplaced(st)
                 /\ (st.source.kind = "literal" /\ st.source.global) =>
                       AllReplaced(st)
                 /\ (st.source.kind = "edges" /\ ~st.source.global) =>
                       OneEdgeReplaced(st)
                 /\ (st.source.kind = "edges" /\ st.source.global) =>
                       BothEdgesReplaced(st)
       /\ ruleCall.result
             = (IF rules = <<>> THEN ruleText
                ELSE ruleCall.steps[Len(rules)].out)

\* The first rule matched nothing in "a a"; the second, not global, then
\* removed the first "a" and left the other.
C12_Witness ==
    /\ ruleCall.made
    /\ ruleText = <<"a", " ", "a">>
    /\ rules = <<Literal(<<"a", "a">>, TRUE, <<"z">>),
                 Literal(<<"a">>, FALSE, <<>>)>>
    /\ ruleCall.steps[1].out = ruleText
    /\ ruleCall.result = <<" ", "a">>

(* C13: getTrimFilter compiles to [trim] for artist, track and album;       *)
(* getYoutubeFilter to [youtube, trim] for the track and [trim] for artist  *)
(* and album; getRemasteredFilter to [removeRemastered, trim] for track and *)
(* album and [trim] for the artist.  Every field of every one of them ends  *)
(* with trim, and filtering a non-empty text calls the functions of the     *)
(* field's list in the list's order, youtube and removeRemastered before    *)
(* trim.                                                                    *)
C13_PresetLists ==
    /\ filterSet = TrimFilterSet =>
          mergedFilterSet = [artist |-> <<"trim">>, track |-> <<"trim">>,
                             album |-> <<"trim">>]
    /\ filterSet = YoutubeFilterSet =>
          mergedFilterSet = [artist |-> <<"trim">>,
                             track |-> <<"youtube", "trim">>,
                             album |-> <<"trim">>]
    /\ filterSet = RemasteredFilterSet =>
          mergedFilterSet = [artist |-> <<"trim">>,
                             track |-> <<"removeRemastered", "trim">>,
                             album |-> <<"removeRemastered", "trim">>]
    /\ \A field \in Fields :
          /\ mergedFilterSet[field] # <<>>
          /\ mergedFilterSet[field][Len(mergedFilterSet[field])] = "trim"
    /\ (call.made /\ call.text # Null /\ call.text # <<>>) =>
          /\ ~call.raised
          /\ InvokedFns = mergedFilterSet[call.field]
          /\ \A i \in DOMAIN call.invoked : Chained(i)
          /\ call.result = trim(call.text).out

\* A track title was filtered by the YouTube filter object: youtube ran
\* first, trim after it.
C13_Witness ==
    /\ call.made
    /\ filterSet = YoutubeFilterSet
    /\ call.field = "track"
    /\ call.text = <<" ", "a", " ">>
    /\ InvokedFns = <<"youtube", "trim">>
    /\ call.result = <<"a">>

-----------------------------------------------------------------------------
(* Readings of the constructed MetadataFilter objects. *)

\* The list of a field as filterField reads it now.
ListNow(i, field) == arrays[filterObjs[i].mergedFilterSet[field]]

\* References the objects keep, over objects and fields.
ListRefs ==
    {<<i, field, filterObjs[i].mergedFilterSet[field]>> :
        i \in DOMAIN filterObjs, field \in Fields}

(* C14: two MetadataFilter objects constructed from the same filter set     *)
(* (same properties, same elements) have equal lists for every field; a     *)
(* construction changes neither the filter set nor any array that existed   *)
(* before it; and the list of a field is an array of its own, made by the   *)
(* construction, so that filterField reads from it the elements of the      *)
(* filter set as it was when the object was constructed, whatever the       *)
(* caller does to the filter set and its arrays afterwards.                 *)
C14_StateInv ==
    /\ \A i \in DOMAIN filterObjs, field \in Fields :
          /\ ListNow(i, field)
                = createMergedFilters(filterObjs[i].from)[field]
          /\ filterObjs[i].mergedFilterSet[field] \notin CallerArrays
    /\ \A i \in DOMAIN filterObjs, j \in DOMAIN filterObjs :
          filterObjs[i].from = filterObjs[j].from =>
             \A field \in Fields : ListNow(i, field) = ListNow(j, field)
    /\ \A x \in ListRefs, y \in ListRefs :
          x[3] = y[3] => (x[1] = y[1] /\ x[2] = y[2])

C14_ConstructStep ==
    Len(filterObjs') > Len(filterObjs) =>
       /\ filterSetObj' = filterSetObj
       /\ SubSeq(arrays', 1, Len(arrays)) = arrays
       /\ \A field \in Fields :
             filterObjs'[Len(filterObjs')].mergedFilterSet[field]
                \notin DOMAIN arrays

C14_CompilationIsPure == [](C14_StateInv) /\ [][C14_ConstructStep]_vars

\* The array of 'all' was empty when the first object was constructed from
\* { track: <array 1>, all: <array 2> }; the caller then pushed onto both
\* arrays and constructed a second object, whose lists differ from those of
\* the first, which still has the single element array 1 had.
C14_Witness ==
    /\ Len(filterObjs) = 2
    /\ filterSetObj.track = ArrayAt(1)
    /\ filterSetObj.all = ArrayAt(2)
    /\ filterObjs[1].from.all = Array(<<>>)
    /\ ListNow(1, "track") = <<"trim">>
    /\ arrays[1] = <<"trim", "removeZeroWidth">>
    /\ arrays[2] = <<"removeZeroWidth">>
    /\ ListNow(2, "track") = <<"trim", "removeZeroWidth", "removeZeroWidth">>

(* C15: processYoutubeVideoTitle returns { artist: null, track: null } for  *)
(* a falsy title, without calling Connector.splitArtistTrack; otherwise it  *)
(* calls the splitter once, on the title without its leading [genre] tag,   *)
(* and returns the splitter's artist and track unless both are null; only   *)
(* then it tries the form Artist "Track" and returns its two groups when    *)
(* the title has it, and null for both when it has not.                     *)
C15_TitleDecisionOrder ==
    titleCall.made =>
       /\ Falsy(rawText) =>
             /\ titleCall.splitCalls = <<>>
             /\ titleCall.artist = Null
             /\ titleCall.track = Null
       /\ ~Falsy(rawText) =>
             /\ titleCall.splitCalls = <<removeGenre(rawText)>>
             /\ ~(splitResult.artist = Null /\ splitResult.track = Null) =>
                   /\ titleCall.artist = splitResult.artist
                   /\ titleCall.track = splitResult.track
             /\ (splitResult.artist = Null /\ splitResult.track = Null) =>
                   IF QuotedMatches(removeGenre(rawText)) = {}
                   THEN titleCall.artist = Null /\ titleCall.track = Null
                   ELSE /\ titleCall.artist # Null
                        /\ titleCall.track # Null
                        /\ FirstIndex(removeGenre(rawText),
                              titleCall.artist \o <<" ", "\"">>
                                 \o titleCall.track \o <<"\"">>) > 0
       /\ (rawText = <<"[", "a", "]", " ", "-", " ", "a", " ", "\"", "a", "\"">>
           /\ splitResult.artist = Null /\ splitResult.track = <<"a">>) =>
             /\ titleCall.artist = Null
             /\ titleCall.track = <<"a">>

\* The splitter found nothing in 'a "a"', the title [a] - a "a" without its
\* tag, and the quoted form gave artist and track.
C15_Witness ==
    /\ titleCall.made
    /\ rawText = <<"[", "a", "]", " ", "-", " ", "a", " ", "\"", "a", "\"">>
    /\ splitResult = NullPair
    /\ titleCall.splitCalls = <<<<"a", " ", "\"", "a", "\"">>>>
    /\ titleCall.artist = <<"a">>
    /\ titleCall.track = <<"a">>

(* C16: on a Material page, a getter called while isPlayerOffscreen is true *)
(* gives the empty track state, whatever the title, the link and the video  *)
(* element hold: getArtistTrack { artist: null, track: null }, getUniqueID  *)
(* null, getCurrentTime null, getDuration null; and none of them raises.    *)
C16_OffscreenGivesEmptyState ==
    /\ (player = "material" /\ isPlayerOffscreen) =>
          /\ getArtistTrack(isPlayerOffscreen, page.title, splitResult)
                = NullPair
          /\ getUniqueID(isPlayerOffscreen, page.href) = Returns(Null)
          /\ getCurrentTime(isPlayerOffscreen, page.currentTime) = Null
          /\ getDuration(isPlayerOffscreen, page.duration) = Null
    /\ (got.made /\ got.offscreen) =>
          /\ ~got.raised
          /\ IF got.getter = "getArtistTrack" THEN got.result = NullPair
             ELSE got.result = Null

\* The player was off screen (left edge at 0) while the title, the link and
\* the video element still held a song; the current time was asked for.
C16_Witness ==
    /\ got.made
    /\ got.offscreen
    /\ got.getter = "getCurrentTime"
    /\ got.result = Null
    /\ anchorPresent
    /\ offsetLeft = 0
    /\ offsetTop = 1
    /\ page.currentTime = <<"1">>
    /\ page.title = <<"a", " ", "\"", "a", "\"">>
    /\ page.href = <<"v", "=", "a">>

(* C17: in every reachable state, isMusicVideoPresent = true implies that a *)
(* 'timeupdate' listener is attached to the video element that is in the    *)
(* page (the one matching videoSelector).                                   *)
C17_FlagImpliesListener ==
    isMusicVideoPresent => (video # 0 /\ listeners[video] >= 1)

(* C18: once the 'timeupdate' listener is attached it is never removed and  *)
(* isMusicVideoPresent never goes back to false: no observation, off-surface *)
(* ones included, takes a listener away or resets the flag, so the hooked   *)
(* video element keeps exactly one listener, and a 'timeupdate' event of it *)
(* calls Connector.onStateChanged exactly once.                             *)
C18_HookIsPermanent ==
    /\ \A i \in DOMAIN log :
          /\ log[i].hooked >= 0
          /\ FlagBefore(i) => log[i].flag
    /\ isMusicVideoPresent = (log # <<>> /\ log[Len(log)].flag)
    /\ TotalListeners(listeners) = HookedListeners
    /\ (\E i \in DOMAIN log : log[i].attach = 1) => isMusicVideoPresent
    /\ (\E i \in DOMAIN log : log[i].hooked = 1) =>
          \E e \in VideoIds : listeners[e] = 1
    /\ (video # 0 /\ listeners[video] >= 1) => listeners[video] = 1
    /\ tick.el # 0 =>
          /\ tick.calls \in {0, listeners[tick.el]}
          /\ tick.calls <= 1

\* The hook was attached at the first observation; two off-surface
\* observations and one on-surface observation followed; the hooked element
\* still has its one listener, and its 'timeupdate' event made one call.
C18_Witness ==
    /\ Preds = <<"on", "off", "off", "on">>
    /\ log[1].hooked = 1
    /\ isMusicVideoPresent
    /\ video # 0
    /\ listeners[video] = 1
    /\ tick.el = video
    /\ tick.calls = 1

-----------------------------------------------------------------------------
(* Readings of the showNotification calls. *)

\* Calls of resolve and reject made for the c-th call's promise.
Settles(c) == shows[c].resolves + shows[c].rejects

\* The c-th call met one of the reasons to reject.
MustReject(c) ==
    \/ ~shows[c].available
    \/ shows[c].level \notin {"", "granted"}
    \/ shows[c].threw

(* C19: every showNotification call settles its promise exactly once.  It   *)
(* rejects, and no notification is created, when the Notifications API is   *)
(* not available, when the permission level is not 'granted', and when      *)
(* chrome.notifications.create throws; otherwise it resolves with the ID of *)
(* the notification created, and when a function was passed as onClicked it *)
(* is the click listener of that ID when the promise is resolved.           *)
C19_StateInv ==
    \A c \in DOMAIN shows :
       /\ Settles(c) <= 1
       /\ shows[c].phase = "done" <=> Settles(c) = 1
       /\ MustReject(c) =>
             /\ shows[c].rejects = 1
             /\ shows[c].creates = 0
             /\ shows[c].id = 0
       /\ shows[c].rejects = 1 => MustReject(c)
       /\ shows[c].resolves = 1 =>
             /\ shows[c].creates = 1
             /\ shows[c].id \in DOMAIN notifications
             /\ shows[c].value = shows[c].id
             /\ shows[c].onClicked => shows[c].listener = c

C19_Settles ==
    \A c \in Shows :
       (c \in DOMAIN shows) ~> (c \in DOMAIN shows /\ Settles(c) = 1)

C19_SettlesExactlyOnce == [](C19_StateInv) /\ C19_Settles

\* The first call passed a listener and was resolved with ID 1, the
\* listener registered; the second was rejected, the permission level being
\* 'denied', and no second notification exists.
C19_Witness ==
    /\ Len(shows) = 2
    /\ shows[1].resolves = 1
    /\ shows[1].onClicked
    /\ shows[1].value = 1
    /\ shows[1].listener = 1
    /\ shows[2].rejects = 1
    /\ shows[2].level = "denied"
    /\ Len(notifications) = 1

-----------------------------------------------------------------------------
(* Readings of the showAuthenticate calls. *)

\* The places in opened of what the a-th call opened.
OpenedBy(a) == {i \in DOMAIN opened : opened[i].auth = a}

\* The auth windows the a-th call opened without a click.
Unclicked(a) ==
    {i \in OpenedBy(a) : opened[i].what = "window" /\ opened[i].click = 0}

(* C21: for showAuthenticate, when authUrlGetter resolves, the auth URL     *)
(* window is opened without a click exactly when the notification could not *)
(* be shown (the API is not available, the permission level is not          *)
(* 'granted', or chrome.notifications.create throws), and then once; when   *)
(* the notification was shown the window is opened only by the click        *)
(* listener of that notification.  When authUrlGetter rejects, the sign-in  *)
(* error notification is asked for with a listener and no window is opened, *)
(* its listener opening the status page in a tab.                            *)
C21_AuthWindowFallback ==
    /\ \A i \in DOMAIN opened : opened[i].auth \in DOMAIN auths
    /\ \A a \in DOMAIN auths :
          /\ auths[a].phase = "getter" =>
                /\ auths[a].show = 0
                /\ OpenedBy(a) = {}
          /\ auths[a].phase # "getter" =>
                /\ auths[a].show \in DOMAIN shows
                /\ shows[auths[a].show].onClicked
                /\ \A b \in DOMAIN auths :
                      auths[b].show = auths[a].show => b = a
          /\ auths[a].phase = "resolved" =>
                /\ Cardinality(Unclicked(a)) =
                      (IF MustReject(auths[a].show) THEN 1 ELSE 0)
                /\ \A i \in OpenedBy(a) :
                      /\ opened[i].what = "window"
                      /\ opened[i].url = auths[a].authUrl
                      /\ opened[i].click # 0 =>
                            /\ shows[auths[a].show].resolves = 1
                            /\ opened[i].click = shows[auths[a].show].id
          /\ auths[a].phase = "rejected" =>
                \A i \in OpenedBy(a) :
                   /\ opened[i].what = "tab"
                   /\ opened[i].url = StatusUrl
                   /\ opened[i].click = shows[auths[a].show].id
                   /\ opened[i].click # 0

\* The first call's notification could not be shown, the permission level
\* being 'denied': its window was opened without a click.  The second
\* call's notification was shown as notification 1 and clicked: its window
\* was opened by that click.
C21_Witness ==
    /\ Len(auths) = 2
    /\ auths[1].phase = "resolved"
    /\ auths[2].phase = "resolved"
    /\ auths[1].authUrl = "auth1"
    /\ auths[2].authUrl = "auth2"
    /\ shows[auths[1].show].level = "denied"
    /\ shows[auths[2].show].resolves = 1
    /\ opened = <<Opened("window", "auth1", 1, 0),
                  Opened("window", "auth2", 2, 1)>>

=============================================================================
